---- MODULE Spec2Model ----
(***************************************************************************)
(* Shortest path by Dijkstra's algorithm over a mutable-priority heap:     *)
(* a model of src/main.c (app, loadNodes, loadEdges, dijkstra,             *)
(* printShortestPath).  graph.h / heap.h are not part of the sources; the  *)
(* graph and the heap are modelled from their description in spec.md.      *)
(***************************************************************************)
EXTENDS Integers, Sequences, FiniteSets, TLC

\* ------------------------------------------------------------------ bounds

\* Bits of `unsigned int` in the model (32 in the build).  Distances are
\* computed modulo 2^Width, exactly as the C unsigned arithmetic does.
Width == 3

\* The edge file holds at most this many lines.
MaxEdges == 3

\* ------------------------------------------------------- program constants

NULL == 0

UINT_MAX == 2^Width - 1

INT_MAX == 2^(Width - 1) - 1

\* The ids occurring in the node file, the edge file and on the command line.
NodeIds == {1, 2, 3}

\* The non-negative weights (mindelay) occurring in the edge file.
Weights == {0, INT_MAX}

\* The lines of the edge file, parsed: source, destination, mindelay.
EdgeLines == [source : NodeIds, dest : NodeIds, mindelay : Weights]

\* A second input family: four nodes, edges leading to a larger id only,
\* heavy weights.
WideNodeIds == {1, 2, 3, 4}

\* The edge file of the second family holds at most this many lines.
MaxWideEdges == MaxEdges + 1

WideEdgeLines ==
    {l \in [source : WideNodeIds, dest : WideNodeIds,
            mindelay : {INT_MAX - 1, INT_MAX}] : l.source < l.dest}

AllIds == NodeIds \cup WideNodeIds

Resources == {"nodes", "edges", "graph", "heap", "output"}

VARIABLES
    pc,          \* position in app() / dijkstra() / printShortestPath()
    nodes,       \* Graph: the ids of the nodes it owns
    edges,       \* Node.outgoing_edges: id -> sequence of [destination, mindelay]
    distance,    \* Node.distance
    previous,    \* Node.previous (NULL or an id)
    heap,        \* Heap: the ids of the nodes still present
    h,           \* app's Heap* h: "NULL" or "heap"
    source_id,   \* atoi(sourceNode), NULL until dijkstra() is called
    dest_id,     \* atoi(destNode), NULL until read
    dest_node,   \* app's Node* dest_node
    node,        \* dijkstra's Node* node
    d,           \* dijkstra's unsigned int d
    i,           \* dijkstra's loop index (1-based here)
    tmp_node,    \* printShortestPath's tmp_node
    tmp_prev,    \* printShortestPath's tmp_prev
    output,      \* app's FILE* output: "none", "stdout" or "file"
    out,         \* the lines written to output
    errors,      \* the errorType values handed to errorHandle, in order
    ret,         \* app's return value, -1 while it runs
    acquired,    \* per resource: times it was opened / allocated
    released,    \* per resource: times it was closed / freed
    stdoutClosed,\* fclose(stdout) was called
    precond      \* every heap_decrease_distance call so far was made on a
                 \* node present in the heap, with a smaller distance

vars == <<pc, nodes, edges, distance, previous, heap, h, source_id, dest_id,
          dest_node, node, d, i, tmp_node, tmp_prev, output, out, errors, ret,
          acquired, released, stdoutClosed, precond>>

graphVars == <<nodes, edges, distance, previous>>
searchVars == <<node, d, i>>
printVars == <<tmp_node, tmp_prev, output, out>>

\* -------------------------------------------------------------- the graph

NoEdges == [n \in AllIds |-> <<>>]
NoDistance == [n \in AllIds |-> UINT_MAX]
NoPrevious == [n \in AllIds |-> NULL]

\* graph_get_node: the node, or NULL when the graph holds none with this id.
graph_get_node(id) == IF id \in nodes THEN id ELSE NULL

\* graph_insert_node on a set of nodes: a no-op for an id already present.
graph_insert_node(ns, id) == ns \cup {id}

\* graph_insert_edge: both end nodes exist afterwards, the edge is appended
\* to the source's list.
graph_insert_edge(l) ==
    /\ nodes' = graph_insert_node(graph_insert_node(nodes, l.source), l.dest)
    /\ edges' = [edges EXCEPT ![l.source] =
                    Append(@, [destination |-> l.dest, mindelay |-> l.mindelay])]

\* graph_free: nodes and adjacency lists are gone.
graph_free ==
    /\ nodes' = {}
    /\ edges' = NoEdges
    /\ distance' = NoDistance
    /\ previous' = NoPrevious

node_get_n_outgoing(n) == Len(edges[n])

NEdges == LET RECURSIVE Sum(_)
              Sum(S) == IF S = {} THEN 0
                        ELSE LET n == CHOOSE x \in S : TRUE
                             IN Len(edges[n]) + Sum(S \ {n})
          IN Sum(AllIds)

\* --------------------------------------------------------------- the heap

\* heap_extract_min returns a node of smallest distance; ties are broken
\* arbitrarily.
IsMin(n) == n \in heap /\ \A m \in heap : distance[n] <= distance[m]

\* heap_decrease_distance(h, n, val, prev).  For a node in the heap the
\* fields are stored (the sift only moves slots).  For a node no longer in
\* the heap the contract leaves the behaviour undefined: the call is either
\* ignored or stores the fields.
heap_decrease_distance(n, val, prev) ==
    /\ \/ /\ distance' = [distance EXCEPT ![n] = val]
          /\ previous' = [previous EXCEPT ![n] = prev]
       \/ /\ n \notin heap
          /\ UNCHANGED <<distance, previous>>
    /\ precond' = (precond /\ n \in heap /\ val < distance[n])

\* ------------------------------------------------------------ bookkeeping

errorHandle(e) == errors' = Append(errors, e)

Acquire(r) == acquired' = [acquired EXCEPT ![r] = @ + 1]

Release(rs) == released' = [r \in Resources |->
                                released[r] + (IF r \in rs THEN 1 ELSE 0)]

\* return from app()
Return(code) == pc' = "done" /\ ret' = code

\* ------------------------------------------------------------------ app()

Init ==
    /\ pc = "openNodes"
    /\ nodes = {}
    /\ edges = NoEdges
    /\ distance = NoDistance
    /\ previous = NoPrevious
    /\ heap = {}
    /\ h = "NULL"
    /\ source_id = NULL
    /\ dest_id = NULL
    /\ dest_node = NULL
    /\ node = NULL
    /\ d = 0
    /\ i = 0
    /\ tmp_node = NULL
    /\ tmp_prev = NULL
    /\ output = "none"
    /\ out = <<>>
    /\ errors = <<>>
    /\ ret = -1
    /\ acquired = [r \in Resources |-> 0]
    /\ released = [r \in Resources |-> 0]
    /\ stdoutClosed = FALSE
    /\ precond = TRUE

\* main.c 205-208
OpenNodes ==
    /\ pc = "openNodes"
    /\ \/ /\ Acquire("nodes")
          /\ pc' = "openEdges"
          /\ UNCHANGED <<errors, ret>>
       \/ /\ errorHandle("INVALID_NODE_FILE")
          /\ Return(1)
          /\ UNCHANGED acquired
    /\ UNCHANGED <<graphVars, heap, h, source_id, dest_id, dest_node, searchVars,
                   printVars, released, stdoutClosed, precond>>

\* main.c 209-213
OpenEdges ==
    /\ pc = "openEdges"
    /\ \/ /\ Acquire("edges")
          /\ pc' = "newGraph"
          /\ UNCHANGED <<errors, ret, released>>
       \/ /\ errorHandle("INVALID_EDGES_FILE")
          /\ Release({"nodes"})
          /\ Return(1)
          /\ UNCHANGED acquired
    /\ UNCHANGED <<graphVars, heap, h, source_id, dest_id, dest_node, searchVars,
                   printVars, stdoutClosed, precond>>

\* main.c 216-221
NewGraph ==
    /\ pc = "newGraph"
    /\ \/ /\ Acquire("graph")
          /\ pc' = "loadNodes"
          /\ UNCHANGED <<errors, ret, released>>
       \/ /\ errorHandle("NO_MEMORY")
          /\ Release({"nodes", "edges"})
          /\ Return(1)
          /\ UNCHANGED acquired
    /\ UNCHANGED <<graphVars, heap, h, source_id, dest_id, dest_node, searchVars,
                   printVars, stdoutClosed, precond>>

\* main.c 222-227 with loadNodes 110-122: one line of the node file is read
\* and its node inserted, or the insertion fails, or the file ends.
LoadNodes(ids) ==
    /\ pc = "loadNodes"
    /\ \/ /\ \E id \in ids : nodes' = graph_insert_node(nodes, id)
          /\ UNCHANGED <<pc, edges, distance, previous, errors, ret, released>>
       \/ /\ pc' = "loadEdges"
          /\ UNCHANGED <<graphVars, errors, ret, released>>
       \/ /\ errorHandle("NO_MEMORY")
          /\ graph_free
          /\ Release({"graph", "nodes", "edges"})
          /\ Return(1)
    /\ UNCHANGED <<heap, h, source_id, dest_id, dest_node, searchVars, printVars,
                   acquired, stdoutClosed, precond>>

\* main.c 228-233 with loadEdges 124-143
LoadEdges(lines, max) ==
    /\ pc = "loadEdges"
    /\ \/ /\ NEdges < max
          /\ \E l \in lines : graph_insert_edge(l)
          /\ UNCHANGED <<pc, distance, previous, errors, ret, released>>
       \/ /\ pc' = "getDest"
          /\ UNCHANGED <<graphVars, errors, ret, released>>
       \/ /\ errorHandle("NO_MEMORY")
          /\ graph_free
          /\ Release({"graph", "nodes", "edges"})
          /\ Return(1)
    /\ UNCHANGED <<heap, h, source_id, dest_id, dest_node, searchVars, printVars,
                   acquired, stdoutClosed, precond>>

\* A lookup result that is never taken for missing.
DestMissing_never(n) == FALSE

\* main.c 238: if (!dest_node)
DestMissing(n) == n = NULL

\* main.c 236-243: dest_node = graph_get_node(g, atoi(destNode))
GetDest(ids) ==
    /\ pc = "getDest"
    /\ \E id \in ids :
        /\ dest_id' = id
        /\ dest_node' = graph_get_node(id)
        /\ IF DestMissing(dest_node')
           THEN /\ errorHandle("INVALID_DEST_NODE_ID")
                /\ graph_free
                /\ Release({"graph", "nodes", "edges"})
                /\ Return(1)
           ELSE /\ pc' = "dijkstra"
                /\ UNCHANGED <<graphVars, errors, ret, released>>
    /\ UNCHANGED <<heap, h, source_id, searchVars, printVars,
                   acquired, stdoutClosed, precond>>

\* ------------------------------------------------------------- dijkstra()

\* main.c 245 and 145-150: dijkstra(g, atoi(sourceNode), dest_node) is
\* called; heap_new_from_graph holds every node of the graph.
HeapNew(ids) ==
    /\ pc = "dijkstra"
    /\ \E id \in ids : source_id' = id
    /\ \/ /\ heap' = nodes
          /\ Acquire("heap")
          /\ pc' = "getSource"
          /\ UNCHANGED <<h, errors>>
       \/ /\ errorHandle("NO_MEMORY")
          /\ h' = "NULL"
          /\ pc' = "afterDijkstra"
          /\ UNCHANGED <<heap, acquired>>
    /\ UNCHANGED <<graphVars, dest_id, dest_node, searchVars, printVars,
                   ret, released, stdoutClosed, precond>>

\* The error path without heap_free(h).
dijkstra_invalid_source_leak ==
    /\ errorHandle("INVALID_SOURCE_NODE_ID")
    /\ heap' = heap
    /\ released' = released
    /\ h' = "NULL"
    /\ pc' = "afterDijkstra"

\* main.c 152-156: the source is absent: the error is printed, the heap
\* freed, NULL returned.
dijkstra_invalid_source ==
    /\ errorHandle("INVALID_SOURCE_NODE_ID")
    /\ heap' = {}
    /\ Release({"heap"})
    /\ h' = "NULL"
    /\ pc' = "afterDijkstra"

\* main.c 151-157: the source is looked up; an absent one ends the search,
\* a present one gets distance 0.
GetSource ==
    /\ pc = "getSource"
    /\ IF graph_get_node(source_id) = NULL
       THEN /\ dijkstra_invalid_source
            /\ UNCHANGED <<distance, previous, precond>>
       ELSE /\ heap_decrease_distance(graph_get_node(source_id), 0, NULL)
            /\ pc' = "loop"
            /\ UNCHANGED <<heap, h, errors, released>>
    /\ UNCHANGED <<nodes, edges, source_id, dest_id, dest_node, searchVars,
                   printVars, ret, acquired, stdoutClosed>>

\* The loop without its break on an unreachable node.
Unreachable_nobreak(n) == FALSE

\* main.c 167: if (alt == UINT_MAX) break;
Unreachable(n) == distance[n] = UINT_MAX

\* main.c 162-167 and 179: the loop test, heap_extract_min, the break on an
\* unreachable node.
ExtractMin ==
    /\ pc = "loop"
    /\ IF heap = {}
       THEN /\ h' = "heap"
            /\ pc' = "afterDijkstra"
            /\ UNCHANGED <<heap, searchVars>>
       ELSE \E n \in heap :
            /\ IsMin(n)
            /\ heap' = heap \ {n}
            /\ node' = n
            /\ d' = distance[n]
            /\ i' = 1
            /\ IF Unreachable(n)
               THEN h' = "heap" /\ pc' = "afterDijkstra"
               ELSE h' = h /\ pc' = "relax"
    /\ UNCHANGED <<graphVars, source_id, dest_id, dest_node, printVars, errors, ret,
                   acquired, released, stdoutClosed, precond>>

\* main.c 170: alt = d + tmp_edges[i].mindelay, in unsigned arithmetic
Alt(dist, mindelay) == (dist + mindelay) % (UINT_MAX + 1)

\* main.c 168-174: one edge of the extracted node is relaxed.
RelaxEdge ==
    /\ pc = "relax"
    /\ i <= node_get_n_outgoing(node)
    /\ LET tmp == edges[node][i].destination
           alt == Alt(d, edges[node][i].mindelay)
       IN IF alt < distance[tmp]
          THEN heap_decrease_distance(tmp, alt, node)
          ELSE UNCHANGED <<distance, previous, precond>>
    /\ i' = i + 1
    /\ UNCHANGED <<pc, nodes, edges, heap, h, source_id, dest_id, dest_node, node, d,
                   printVars, errors, ret, acquired, released, stdoutClosed>>

\* main.c 175-178: after the last edge, return on the destination.
EndIteration ==
    /\ pc = "relax"
    /\ i > node_get_n_outgoing(node)
    /\ IF node = dest_node
       THEN h' = "heap" /\ pc' = "afterDijkstra"
       ELSE h' = h /\ pc' = "loop"
    /\ UNCHANGED <<graphVars, heap, source_id, dest_id, dest_node, searchVars,
                   printVars, errors, ret, acquired, released, stdoutClosed,
                   precond>>

\* ---------------------------------------------------- app(), after search

\* The failure path freeing the heap a second time.
app_search_failed_twice ==
    /\ graph_free
    /\ Release({"heap", "graph", "nodes", "edges"})
    /\ Return(1)

\* main.c 246-250: dijkstra() returned NULL, having freed what it built.
app_search_failed ==
    /\ graph_free
    /\ Release({"graph", "nodes", "edges"})
    /\ Return(1)

\* "No path" taken from the missing predecessor instead of the distance.
NoPath_byPrevious == previous[dest_node] = NULL

\* main.c 252: node_get_distance(dest_node) == UINT_MAX
NoPath == distance[dest_node] = UINT_MAX

\* main.c 245-258
AfterDijkstra ==
    /\ pc = "afterDijkstra"
    /\ IF h = "NULL"
       THEN /\ app_search_failed
            /\ UNCHANGED <<heap, errors>>
       ELSE IF NoPath
       THEN /\ errorHandle("NO_PATH")
            /\ heap' = {}
            /\ graph_free
            /\ Release({"heap", "graph", "nodes", "edges"})
            /\ Return(1)
       ELSE /\ pc' = "openOutput"
            /\ UNCHANGED <<graphVars, heap, errors, ret, released>>
    /\ UNCHANGED <<h, source_id, dest_id, dest_node, searchVars, printVars,
                   acquired, stdoutClosed, precond>>

\* main.c 260-272
OpenOutput ==
    /\ pc = "openOutput"
    /\ \/ /\ output' = "stdout"
          /\ pc' = "print"
          /\ UNCHANGED <<graphVars, heap, errors, ret, acquired, released>>
       \/ /\ output' = "file"
          /\ Acquire("output")
          /\ pc' = "print"
          /\ UNCHANGED <<graphVars, heap, errors, ret, released>>
       \/ /\ errorHandle("CANNOT_CREATE_NEW_FILE")
          /\ heap' = {}
          /\ graph_free
          /\ Release({"heap", "graph", "nodes", "edges"})
          /\ Return(1)
          /\ UNCHANGED <<output, acquired>>
    /\ UNCHANGED <<h, source_id, dest_id, dest_node, searchVars, tmp_node, tmp_prev,
                   out, stdoutClosed, precond>>

\* ---------------------------------------------------- printShortestPath()

Line(kind, prev, cur, label) ==
    [kind |-> kind, prev |-> prev, cur |-> cur, label |-> label]

\* The label of main.c 188, an unsigned difference.
Label(cur, prev) == (distance[cur] - distance[prev]) % (UINT_MAX + 1)

\* main.c 183-186
PrintOpen ==
    /\ pc = "print"
    /\ out' = Append(out, Line("open", NULL, NULL, 0))
    /\ IF source_id # dest_node
       THEN /\ tmp_node' = dest_node
            /\ tmp_prev' = previous[dest_node]
            /\ pc' = "walk"
       ELSE /\ pc' = "close"
            /\ UNCHANGED <<tmp_node, tmp_prev>>
    /\ UNCHANGED <<graphVars, heap, h, source_id, dest_id, dest_node, searchVars,
                   output, errors, ret, acquired, released, stdoutClosed,
                   precond>>

\* The walk advancing from the node it has just left.
NextPrev_stale == previous[tmp_node]

\* main.c 190: tmp_prev = node_get_previous(tmp_prev)
NextPrev == previous[tmp_prev]

\* main.c 187-191.  The line count is capped: a walk longer than the graph
\* has nodes is going round a cycle of previous links.
PrintEdge ==
    /\ pc = "walk"
    /\ tmp_prev # NULL
    /\ Len(out) <= Cardinality(nodes)
    /\ out' = Append(out, Line("edge", tmp_prev, tmp_node,
                               Label(tmp_node, tmp_prev)))
    /\ tmp_node' = tmp_prev
    /\ tmp_prev' = NextPrev
    /\ UNCHANGED <<pc, graphVars, heap, h, source_id, dest_id, dest_node, searchVars,
                   output, errors, ret, acquired, released, stdoutClosed,
                   precond>>

\* main.c 187, 192-193: the walk is over, the closing line is written.
PrintClose ==
    /\ \/ pc = "close"
       \/ pc = "walk" /\ tmp_prev = NULL
    /\ out' = Append(out, Line("close", NULL, NULL, 0))
    /\ pc' = "cleanup"
    /\ UNCHANGED <<graphVars, heap, h, source_id, dest_id, dest_node, searchVars,
                   tmp_node, tmp_prev, output, errors, ret, acquired,
                   released, stdoutClosed, precond>>

\* main.c 275-279
Cleanup ==
    /\ pc = "cleanup"
    /\ heap' = {}
    /\ graph_free
    /\ Release({"heap", "graph", "nodes", "edges"}
               \cup (IF output = "file" THEN {"output"} ELSE {}))
    /\ stdoutClosed' = (output = "stdout")
    /\ Return(0)
    /\ UNCHANGED <<h, source_id, dest_id, dest_node, searchVars, printVars, errors,
                   acquired, precond>>

\* ------------------------------------------------------- specifications

Next ==
    \/ OpenNodes
    \/ OpenEdges
    \/ NewGraph
    \/ LoadNodes(NodeIds)
    \/ LoadEdges(EdgeLines, MaxEdges)
    \/ GetDest(NodeIds)
    \/ HeapNew(NodeIds)
    \/ GetSource
    \/ ExtractMin
    \/ RelaxEdge
    \/ EndIteration
    \/ AfterDijkstra
    \/ OpenOutput
    \/ PrintOpen
    \/ PrintEdge
    \/ PrintClose
    \/ Cleanup

Spec == Init /\ [][Next]_vars

NextWide ==
    \/ OpenNodes
    \/ OpenEdges
    \/ NewGraph
    \/ LoadNodes(WideNodeIds)
    \/ LoadEdges(WideEdgeLines, MaxWideEdges)
    \/ GetDest(WideNodeIds)
    \/ HeapNew(WideNodeIds)
    \/ GetSource
    \/ ExtractMin
    \/ RelaxEdge
    \/ EndIteration
    \/ AfterDijkstra
    \/ OpenOutput
    \/ PrintOpen
    \/ PrintEdge
    \/ PrintClose
    \/ Cleanup

SpecWide == Init /\ [][NextWide]_vars

\* ------------------------------------------------- the reference distance

\* The least sum of weights over the source-to-node paths, in unbounded
\* integers, found by enumerating paths by their number of edges: {} for a
\* node no path reaches, else {sum}.
Least(S) == IF S = {} THEN {} ELSE {CHOOSE x \in S : \A y \in S : x <= y}

\* The edges leading to n, as <<source, index>>.
Incoming(n) ==
    UNION {{<<m, k>> : k \in {j \in 1..Len(edges[m]) :
                                 edges[m][j].destination = n}} : m \in nodes}

Extend(f) ==
    [n \in AllIds |->
        Least(f[n] \cup
              UNION {{x + edges[e[1]][e[2]].mindelay : x \in f[e[1]]} :
                     e \in Incoming(n)})]

RECURSIVE Paths(_, _)
Paths(f, k) == IF k = 0 THEN f ELSE Paths(Extend(f), k - 1)

MinDist(src) ==
    Paths([n \in AllIds |-> IF n = src THEN {0} ELSE {}], Cardinality(AllIds))

\* The nodes a directed path leads to from src (src itself included).
RECURSIVE Closure(_)
Closure(S) ==
    LET T == S \cup UNION {{edges[m][k].destination : k \in 1..Len(edges[m])} :
                           m \in S}
    IN IF T = S THEN S ELSE Closure(T)

Reachable(src) == Closure({src})

\* The edge lines written so far (all lines but the envelope).
EdgeLinesOut == SelectSeq(out, LAMBDA l : l.kind = "edge")

RECURSIVE SumLabels(_)
SumLabels(ls) == IF ls = <<>> THEN 0 ELSE Head(ls).label + SumLabels(Tail(ls))

Reported(e) == \E k \in 1..Len(errors) : errors[k] = e

Envelope == <<Line("open", NULL, NULL, 0), Line("close", NULL, NULL, 0)>>

\* ------------------------------------------------------------- the claims

\* C1: when dijkstra() returns, every node extracted from the heap has
\* distance equal to the least sum of edge weights over the paths from the
\* source (the infinity sentinel when there is none).
C1_ExtractedDistanceIsLeast ==
    (pc = "afterDijkstra" /\ h = "heap") =>
        \A n \in nodes \ heap :
            LET m == MinDist(source_id)[n]
            IN IF m = {} THEN distance[n] = UINT_MAX ELSE m = {distance[n]}

\* C2: after a successful print with source # destination, every edge line
\* prev -> cur [label=L] is an edge of the graph with weight L, L is
\* distance(cur) - distance(prev), and the labels sum to the least
\* source-to-destination distance.
C2_LinesAreEdgesOfLeastPath ==
    (pc = "cleanup" /\ source_id # dest_node) =>
        /\ \A k \in 1..Len(EdgeLinesOut) :
              LET l == EdgeLinesOut[k]
              IN /\ \E j \in 1..Len(edges[l.prev]) :
                       /\ edges[l.prev][j].destination = l.cur
                       /\ edges[l.prev][j].mindelay = l.label
                 /\ l.label = Label(l.cur, l.prev)
        /\ MinDist(source_id)[dest_node] = {SumLabels(EdgeLinesOut)}

\* C3: when dijkstra() returns its heap and no path leads from the source to
\* the destination, the destination still has the infinity sentinel and no
\* predecessor, and app() then reports NO_PATH, returns 1 and has neither
\* opened nor written the output.
C3_NoPathIsReported ==
    [][(pc = "afterDijkstra" /\ h = "heap"
          /\ dest_node \notin Reachable(source_id))
        => /\ distance[dest_node] = UINT_MAX
           /\ previous[dest_node] = NULL
           /\ errors' = <<"NO_PATH">>
           /\ ret' = 1
           /\ pc' = "done"
           /\ out' = <<>>
           /\ output' = "none"
           /\ acquired'["output"] = 0]_vars

C3_Witness ==
    /\ pc = "done"
    /\ errors = <<"NO_PATH">>
    /\ ret = 1
    /\ source_id # dest_node
    /\ acquired["heap"] = 1

\* C4: a destination id naming no node of the loaded graph makes app()
\* report INVALID_DEST_NODE_ID (and nothing else) and return 1, with no heap
\* built, no search step taken, the source id not looked at and nothing
\* written.
C4_InvalidDestination ==
    [][(pc = "getDest" /\ dest_id' \notin nodes)
        => /\ errors' = <<"INVALID_DEST_NODE_ID">>
           /\ ret' = 1
           /\ pc' = "done"
           /\ acquired'["heap"] = 0
           /\ heap' = {}
           /\ node' = NULL
           /\ source_id' = NULL
           /\ precond' = precond
           /\ out' = <<>>
           /\ output' = "none"]_vars

C4_Witness ==
    /\ pc = "done"
    /\ dest_id # NULL
    /\ dest_node = NULL
    /\ errors = <<"INVALID_DEST_NODE_ID">>
    /\ ret = 1

\* C5: a source id naming no node (the destination being valid) is detected
\* right after the heap is built: INVALID_SOURCE_NODE_ID is reported once,
\* the heap is freed, NULL is returned, no node was extracted or had its
\* distance or predecessor changed; app() then returns 1 with no output.
C5_InvalidSource ==
    [][/\ (pc = "getSource" /\ source_id \notin nodes /\ pc' # pc)
          => /\ errors' = <<"INVALID_SOURCE_NODE_ID">>
             /\ acquired["heap"] = 1
             /\ released'["heap"] = 1
             /\ heap' = {}
             /\ h' = "NULL"
             /\ pc' = "afterDijkstra"
             /\ node' = NULL
             /\ precond' = precond
             /\ distance' = distance /\ distance = NoDistance
             /\ previous' = previous /\ previous = NoPrevious
       /\ (pc = "afterDijkstra" /\ Reported("INVALID_SOURCE_NODE_ID")
             /\ pc' # pc)
          => /\ errors' = errors
             /\ ret' = 1
             /\ pc' = "done"
             /\ released'["heap"] = 1
             /\ out' = <<>>
             /\ output' = "none"]_vars

C5_Witness ==
    /\ pc = "done"
    /\ source_id # NULL
    /\ dest_node # NULL
    /\ errors = <<"INVALID_SOURCE_NODE_ID">>
    /\ ret = 1
    /\ out = <<>>

\* C6: with the source id equal to the destination id and that node in the
\* graph, the node keeps distance 0 throughout the search whatever edges it
\* has, NO_PATH is never reported, and the run ends with exit 0 and exactly
\* the opening and the closing line as its output; the only other endings
\* are the heap that cannot be allocated and the output file that cannot be
\* created.
C6_SourceIsDestination ==
    (source_id # NULL /\ source_id = dest_node) =>
        /\ ~Reported("NO_PATH")
        /\ pc \in {"loop", "relax"} \/ (pc = "afterDijkstra" /\ h = "heap")
              => distance[dest_node] = 0 /\ previous[dest_node] = NULL
        /\ pc = "cleanup" => out = Envelope
        /\ pc = "done" =>
              \/ ret = 0 /\ errors = <<>> /\ out = Envelope
              \/ /\ ret = 1
                 /\ out = <<>>
                 /\ errors \in {<<"NO_MEMORY">>, <<"CANNOT_CREATE_NEW_FILE">>}

C6_Witness ==
    /\ pc = "cleanup"
    /\ source_id = dest_node
    /\ out = Envelope
    /\ \E j \in 1..Len(edges[source_id]) :
          edges[source_id][j].destination = source_id

\* C7: the search loop ends after at most N extractions (the heap only ever
\* loses nodes of the graph) and the walk over the previous links ends: it
\* writes at most N - 1 edge lines.
C7_SearchAndWalkEnd ==
    /\ heap \subseteq nodes
    /\ pc \in {"walk", "cleanup"} => Len(EdgeLinesOut) < Cardinality(nodes)

C9_WalkStopsAtSource ==
    (pc \in {"walk", "cleanup"} /\ source_id # dest_node) =>
        LET E == EdgeLinesOut
        IN /\ \A k \in 1..Len(E) :
                 /\ E[k].cur = (IF k = 1 THEN dest_node ELSE E[k - 1].prev)
                 /\ E[k].cur # source_id
           /\ pc = "cleanup" => Len(E) > 0 /\ E[Len(E)].prev = source_id
           /\ (pc = "walk" /\ Len(E) > 0 /\ E[Len(E)].prev = source_id)
                 => tmp_prev = NULL

C9_Witness ==
    /\ pc = "cleanup"
    /\ source_id # dest_node
    /\ Len(EdgeLinesOut) = 2

\* C10: every call of heap_decrease_distance is made on a node still present
\* in the heap, with a distance smaller than the node's.
C10_DecreaseOnPresentNode == precond

====
